---------------------------- MODULE Spec2Model ----------------------------
(***************************************************************************)
(* Model of src/utils/adcodeMap.ts (the adcode -> province name table and  *)
(* its four exported functions) and of src/App.tsx (the double-click       *)
(* handler dblClickFn: resolve the name, fetch, reshape, setChartData).    *)
(*                                                                         *)
(* Representation of JavaScript values                                     *)
(*   a string      a sequence of characters, each a one-token TLA+ string; *)
(*                 a Chinese character is written as its pinyin syllable   *)
(*                 (one token per character, distinct characters have      *)
(*                 distinct tokens: su/su4, jiang/jiang2, hui/hui2, ...)   *)
(*   a JS value    a tagged tuple: <<"undefined">>, <<"null">>,            *)
(*                 <<"bool", b>>, <<"str", s>>, <<"num", m, e>> (the       *)
(*                 number m / 10^e, m not a multiple of 10 unless e = 0),  *)
(*                 <<"NaN">>, <<"arr", elements>>, <<"obj", properties>>   *)
(*   an object     its own properties as a sequence of <<key, value>> in   *)
(*                 creation order                                          *)
(***************************************************************************)
EXTENDS Integers, Sequences, FiniteSets

VARIABLES
    adcode,             \* the adcode argument of the exported functions
    options,            \* their options argument
    ret,                \* the last call of an exported function and its result
    firstCodes,         \* what the first getAllProvinceAdcodes call returned
    handlers,           \* the invocations of dblClickFn
    chartData,          \* the React state chartData of App
    log                 \* the steps the invocations of dblClickFn have taken

vars == <<adcode, options, ret, firstCodes, handlers, chartData, log>>

-----------------------------------------------------------------------------
(* JavaScript values *)

Undefined == <<"undefined">>

Null == <<"null">>

NaN == <<"NaN">>

Str(s) == <<"str", s>>

Bool(b) == <<"bool", b>>

Arr(a) == <<"arr", a>>

Obj(o) == <<"obj", o>>

\* the number m / 10^e in normal form
RECURSIVE Num(_, _)
Num(m, e) ==
    IF e > 0 /\ m % 10 = 0 THEN Num(m \div 10, e - 1) ELSE <<"num", m, e>>

Digits == <<"0", "1", "2", "3", "4", "5", "6", "7", "8", "9">>

IsDigit(c) == \E i \in 1..10 : Digits[i] = c

DigitVal(c) == (CHOOSE i \in 1..10 : Digits[i] = c) - 1

RECURSIVE Pow10(_)
Pow10(n) == IF n = 0 THEN 1 ELSE 10 * Pow10(n - 1)

\* the decimal digits of a natural number, no leading zero
RECURSIVE NatToString(_)
NatToString(n) ==
    IF n < 10 THEN <<Digits[n + 1]>>
    ELSE NatToString(n \div 10) \o <<Digits[(n % 10) + 1]>>

\* the value of a sequence of decimal digits (0 for the empty one)
RECURSIVE DigitsToNat(_)
DigitsToNat(s) ==
    IF s = <<>> THEN 0
    ELSE 10 * DigitsToNat(SubSeq(s, 1, Len(s) - 1)) + DigitVal(s[Len(s)])

\* s with zeros on its left up to n characters
RECURSIVE PadLeft(_, _)
PadLeft(s, n) == IF Len(s) >= n THEN s ELSE PadLeft(<<"0">> \o s, n)

\* Number::toString of the number m / 10^e
NumberToString(v) ==
    LET m == v[2]
        e == v[3]
        a == IF m < 0 THEN -m ELSE m
        sign == IF m < 0 THEN <<"-">> ELSE <<>>
    IN  IF e = 0 THEN sign \o NatToString(a)
        ELSE sign \o NatToString(a \div Pow10(e)) \o <<".">>
                  \o PadLeft(NatToString(a % Pow10(e)), e)

\* String(v): ToString of the language
String(v) ==
    CASE v[1] = "str" -> v[2]
      [] v[1] = "num" -> NumberToString(v)
      [] v[1] = "NaN" -> <<"N", "a", "N">>
      [] v[1] = "null" -> <<"n", "u", "l", "l">>
      [] v[1] = "bool" -> IF v[2] THEN <<"t", "r", "u", "e">>
                          ELSE <<"f", "a", "l", "s", "e">>
      [] OTHER -> <<"u", "n", "d", "e", "f", "i", "n", "e", "d">>

\* a ?? b
Nullish(a, b) == IF a[1] \in {"undefined", "null"} THEN b ELSE a

-----------------------------------------------------------------------------
(* Objects: own properties in creation order *)

OwnKeySeq(o) == [i \in 1..Len(o) |-> o[i][1]]

HasOwn(o, k) == \E i \in 1..Len(o) : o[i][1] = k

\* o[k]: the own property, else undefined (Object.prototype has no property
\* the model's keys name)
Get(o, k) ==
    IF HasOwn(o, k) THEN o[CHOOSE i \in 1..Len(o) : o[i][1] = k][2]
    ELSE Undefined

\* lexicographic order of two digit strings of the same length
RECURSIVE DigitsLess(_, _)
DigitsLess(s, t) ==
    IF s = <<>> THEN FALSE
    ELSE IF s[1] # t[1] THEN DigitVal(s[1]) < DigitVal(t[1])
    ELSE DigitsLess(Tail(s), Tail(t))

\* numeric order of two canonical digit strings
IndexLess(s, t) ==
    Len(s) < Len(t) \/ (Len(s) = Len(t) /\ DigitsLess(s, t))

MaxArrayIndex == <<"4", "2", "9", "4", "9", "6", "7", "2", "9", "4">>

\* an array index: a canonical numeric string at most 2^32 - 2
IsArrayIndex(k) ==
    /\ Len(k) > 0
    /\ \A i \in 1..Len(k) : IsDigit(k[i])
    /\ (k[1] # "0" \/ Len(k) = 1)
    /\ ~IndexLess(MaxArrayIndex, k)

\* the index key k put at its place in the ascending sequence s
RECURSIVE InsertIndexKey(_, _)
InsertIndexKey(k, s) ==
    IF s = <<>> THEN <<k>>
    ELSE IF IndexLess(k, s[1]) THEN <<k>> \o s
    ELSE <<s[1]>> \o InsertIndexKey(k, Tail(s))

\* the index keys of s in ascending numeric order
RECURSIVE SortIndexKeys(_)
SortIndexKeys(s) ==
    IF s = <<>> THEN <<>> ELSE InsertIndexKey(s[1], SortIndexKeys(Tail(s)))

\* Object.keys(o): OrdinaryOwnPropertyKeys, the array indices ascending and
\* then the other keys in creation order
ObjectKeys(o) ==
    LET keys == OwnKeySeq(o)
        NotIndex(k) == ~IsArrayIndex(k)
    IN  SortIndexKeys(SelectSeq(keys, IsArrayIndex)) \o SelectSeq(keys, NotIndex)

\* the entries of o for the keys given, in their order
RECURSIVE EntriesOf(_, _)
EntriesOf(o, keys) ==
    IF keys = <<>> THEN <<>>
    ELSE << <<keys[1], Get(o, keys[1])>> >> \o EntriesOf(o, Tail(keys))

\* Object.entries(o)
ObjectEntries(o) == EntriesOf(o, ObjectKeys(o))

\* the second components of the entries
RECURSIVE ValuesOf(_)
ValuesOf(entries) ==
    IF entries = <<>> THEN <<>> ELSE <<entries[1][2]>> \o ValuesOf(Tail(entries))

\* Object.values(o)
ObjectValuesOfObject(o) == ValuesOf(ObjectEntries(o))

-----------------------------------------------------------------------------
(* adcodeMap.ts *)

\* the table: its properties in the order the object literal writes them; no
\* function of the module assigns to it
ADCODE_TO_PROVINCE ==
    << <<<<"1","1","0","0","0","0">>, Str(<<"bei","jing","shi">>)>>,
       <<<<"1","2","0","0","0","0">>, Str(<<"tian","jin","shi">>)>>,
       <<<<"1","3","0","0","0","0">>, Str(<<"he","bei","sheng">>)>>,
       <<<<"1","4","0","0","0","0">>, Str(<<"shan","xi","sheng">>)>>,
       <<<<"1","5","0","0","0","0">>, Str(<<"nei","meng","gu","zi","zhi","qu">>)>>,
       <<<<"2","1","0","0","0","0">>, Str(<<"liao","ning","sheng">>)>>,
       <<<<"2","2","0","0","0","0">>, Str(<<"ji","lin","sheng">>)>>,
       <<<<"2","3","0","0","0","0">>, Str(<<"hei","long","jiang","sheng">>)>>,
       <<<<"3","1","0","0","0","0">>, Str(<<"shang","hai","shi">>)>>,
       <<<<"3","2","0","0","0","0">>, Str(<<"jiang","su","sheng">>)>>,
       <<<<"3","3","0","0","0","0">>, Str(<<"zhe","jiang","sheng">>)>>,
       <<<<"3","4","0","0","0","0">>, Str(<<"an","hui","sheng">>)>>,
       <<<<"3","5","0","0","0","0">>, Str(<<"fu","jian","sheng">>)>>,
       <<<<"3","6","0","0","0","0">>, Str(<<"jiang","xi","sheng">>)>>,
       <<<<"3","7","0","0","0","0">>, Str(<<"shan","dong","sheng">>)>>,
       <<<<"4","1","0","0","0","0">>, Str(<<"he","nan","sheng">>)>>,
       <<<<"4","2","0","0","0","0">>, Str(<<"hu","bei","sheng">>)>>,
       <<<<"4","3","0","0","0","0">>, Str(<<"hu","nan","sheng">>)>>,
       <<<<"4","4","0","0","0","0">>, Str(<<"guang","dong","sheng">>)>>,
       <<<<"4","5","0","0","0","0">>,
         Str(<<"guang","xi","zhuang","zu","zi","zhi","qu">>)>>,
       <<<<"4","6","0","0","0","0">>, Str(<<"hai","nan","sheng">>)>>,
       <<<<"5","0","0","0","0","0">>, Str(<<"chong","qing","shi">>)>>,
       <<<<"5","1","0","0","0","0">>, Str(<<"si","chuan","sheng">>)>>,
       <<<<"5","2","0","0","0","0">>, Str(<<"gui","zhou","sheng">>)>>,
       <<<<"5","3","0","0","0","0">>, Str(<<"yun","nan","sheng">>)>>,
       <<<<"5","4","0","0","0","0">>, Str(<<"xi","zang","zi","zhi","qu">>)>>,
       <<<<"6","1","0","0","0","0">>, Str(<<"shaan","xi","sheng">>)>>,
       <<<<"6","2","0","0","0","0">>, Str(<<"gan","su4","sheng">>)>>,
       <<<<"6","3","0","0","0","0">>, Str(<<"qing1","hai","sheng">>)>>,
       <<<<"6","4","0","0","0","0">>,
         Str(<<"ning","xia","hui2","zu","zi","zhi","qu">>)>>,
       <<<<"6","5","0","0","0","0">>,
         Str(<<"xin","jiang2","wei","wu","er","zi","zhi","qu">>)>>,
       <<<<"7","1","0","0","0","0">>, Str(<<"tai","wan","sheng">>)>>,
       <<<<"8","1","0","0","0","0">>,
         Str(<<"xiang","gang","te","bie","xing","zheng","qu">>)>>,
       <<<<"8","2","0","0","0","0">>,
         Str(<<"ao","men","te","bie","xing","zheng","qu">>)>> >>

\* ["710000", "810000", "820000"]
SpecialRegionCodes ==
    << <<"7","1","0","0","0","0">>, <<"8","1","0","0","0","0">>,
       <<"8","2","0","0","0","0">> >>

\* a.includes(x)
Includes(a, x) == \E i \in 1..Len(a) : a[i] = x

\* /^\d{6}$/.test(s)
MatchesSixDigits(s) == Len(s) = 6 /\ \A i \in 1..6 : IsDigit(s[i])

\* const { includeSpecialRegions = true } = options || {}
OptIncludeSpecialRegions(opts) ==
    LET given == IF opts[1] = "undefined" THEN Undefined ELSE opts[2]
    IN  IF given[1] = "undefined" THEN TRUE ELSE given[2]

\* const { returnDefault } = options || {}
OptReturnDefault(opts) == IF opts[1] = "undefined" THEN Undefined ELSE opts[3]

\* a plausible slip: || in place of ??, which drops an empty returnDefault
getProvinceNameByAdcode_Or(code, opts) ==
    LET codeStr == String(code)
        returnDefault == OptReturnDefault(opts)
        Or(a, b) == IF a[1] \in {"undefined", "null"} \/ a = Str(<<>>) THEN b ELSE a
    IN  IF ~MatchesSixDigits(codeStr)
        THEN Or(returnDefault, Str(codeStr))
        ELSE IF ~OptIncludeSpecialRegions(opts) /\ Includes(SpecialRegionCodes, codeStr)
        THEN Or(returnDefault, Str(codeStr))
        ELSE Or(Get(ADCODE_TO_PROVINCE, codeStr), Or(returnDefault, Str(codeStr)))

getProvinceNameByAdcode(code, opts) ==
    LET codeStr == String(code)
        returnDefault == OptReturnDefault(opts)
    IN  IF ~MatchesSixDigits(codeStr)
        THEN Nullish(returnDefault, Str(codeStr))
        ELSE IF ~OptIncludeSpecialRegions(opts) /\ Includes(SpecialRegionCodes, codeStr)
        THEN Nullish(returnDefault, Str(codeStr))
        ELSE Nullish(Get(ADCODE_TO_PROVINCE, codeStr),
                     Nullish(returnDefault, Str(codeStr)))

\* a plausible slip: the filter is applied whatever the option says
getAllProvinceAdcodes_AlwaysFilter(opts) ==
    LET NotSpecial(code) == ~Includes(SpecialRegionCodes, code)
    IN  SelectSeq(ObjectKeys(ADCODE_TO_PROVINCE), NotSpecial)

getAllProvinceAdcodes(opts) ==
    LET adcodes == ObjectKeys(ADCODE_TO_PROVINCE)
        NotSpecial(code) == ~Includes(SpecialRegionCodes, code)
    IN  IF ~OptIncludeSpecialRegions(opts) THEN SelectSeq(adcodes, NotSpecial)
        ELSE adcodes

\* a plausible slip: the name of the entry found is returned, not its key
getAdcodeByProvinceName_Value(provinceName) ==
    LET entries == ObjectEntries(ADCODE_TO_PROVINCE)
        Hit(i) == entries[i][2] = Str(provinceName)
    IN  IF \E i \in 1..Len(entries) : Hit(i)
        THEN entries[CHOOSE i \in 1..Len(entries) : Hit(i)][2]
        ELSE Null

\* entries.find: the first entry whose name is provinceName
getAdcodeByProvinceName(provinceName) ==
    LET entries == ObjectEntries(ADCODE_TO_PROVINCE)
        Hit(i) == entries[i][2] = Str(provinceName)
    IN  IF \E i \in 1..Len(entries) : Hit(i)
        THEN Str(entries[CHOOSE i \in 1..Len(entries) :
                             Hit(i) /\ \A j \in 1..(i - 1) : ~Hit(j)][1])
        ELSE Null

\* a plausible slip: the special-region test is left out
isValidProvinceAdcode_NoPolicy(code, opts) ==
    LET codeStr == String(code)
    IN  MatchesSixDigits(codeStr) /\ HasOwn(ADCODE_TO_PROVINCE, codeStr)

\* codeStr in ADCODE_TO_PROVINCE: an own property (Object.prototype has no
\* six-digit property)
isValidProvinceAdcode(code, opts) ==
    LET codeStr == String(code)
    IN  IF ~MatchesSixDigits(codeStr) THEN FALSE
        ELSE IF ~OptIncludeSpecialRegions(opts) /\ Includes(SpecialRegionCodes, codeStr)
        THEN FALSE
        ELSE HasOwn(ADCODE_TO_PROVINCE, codeStr)

-----------------------------------------------------------------------------
(* parseFloat *)

WhiteSpace == {" ", "\t", "\n", "\r"}

RECURSIVE TrimStart(_)
TrimStart(s) ==
    IF s # <<>> /\ s[1] \in WhiteSpace THEN TrimStart(Tail(s)) ELSE s

\* the length of the longest prefix of s made of decimal digits
RECURSIVE DigitPrefixLen(_)
DigitPrefixLen(s) ==
    IF s # <<>> /\ IsDigit(s[1]) THEN 1 + DigitPrefixLen(Tail(s)) ELSE 0

Drop(s, n) == SubSeq(s, n + 1, Len(s))

IsPrefix(p, s) == Len(p) <= Len(s) /\ SubSeq(s, 1, Len(p)) = p

InfinityLiteral == <<"I", "n", "f", "i", "n", "i", "t", "y">>

\* the number (-1)^neg * digits * 10^(exponent - nf)
DecimalValue(neg, digits, nf, exponent) ==
    LET signed == IF neg THEN -DigitsToNat(digits) ELSE DigitsToNat(digits)
    IN  IF nf < exponent THEN Num(signed * Pow10(exponent - nf), 0)
        ELSE Num(signed, nf - exponent)

\* ExponentPart: rest follows the e/E; no exponent unless a digit is there
ParseExponent(neg, digits, nf, rest) ==
    LET eSigned == rest # <<>> /\ rest[1] \in {"+", "-"}
        eDigits == IF eSigned THEN Tail(rest) ELSE rest
        eAbs == DigitsToNat(SubSeq(eDigits, 1, DigitPrefixLen(eDigits)))
    IN  DecimalValue(neg, digits, nf,
            IF eSigned /\ rest[1] = "-" THEN -eAbs ELSE eAbs)

\* what follows the mantissa's digits (nf of them after the point)
ParseAfterMantissa(neg, digits, nf, rest) ==
    IF digits = <<>> THEN NaN
    ELSE IF rest # <<>> /\ rest[1] \in {"e", "E"}
    THEN ParseExponent(neg, digits, nf, Tail(rest))
    ELSE DecimalValue(neg, digits, nf, 0)

\* the fraction: rest follows the point
ParseFraction(neg, intDigits, rest) ==
    LET nf == DigitPrefixLen(rest)
    IN  ParseAfterMantissa(neg, intDigits \o SubSeq(rest, 1, nf), nf, Drop(rest, nf))

\* StrUnsignedDecimalLiteral at the start of u
ParseUnsigned(neg, u) ==
    LET ni == DigitPrefixLen(u)
        rest == Drop(u, ni)
    IN  IF IsPrefix(InfinityLiteral, u) THEN <<"Infinity", neg>>
        ELSE IF rest # <<>> /\ rest[1] = "."
        THEN ParseFraction(neg, SubSeq(u, 1, ni), Tail(rest))
        ELSE ParseAfterMantissa(neg, SubSeq(u, 1, ni), 0, rest)

\* StrDecimalLiteral at the start of t
ParseSigned(t) ==
    IF t # <<>> /\ t[1] \in {"+", "-"} THEN ParseUnsigned(t[1] = "-", Tail(t))
    ELSE ParseUnsigned(FALSE, t)

\* parseFloat(v): the longest prefix of the trimmed String(v) that is a
\* StrDecimalLiteral, NaN when there is none
parseFloat(v) == ParseSigned(TrimStart(String(v)))

-----------------------------------------------------------------------------
(* App.tsx: dblClickFn *)

url == <<"http://121.41.14.73/api/data/">>

Throw == <<"throw", "TypeError">>

Return(v) == <<"return", v>>

\* Object.values(item) of an item that is neither null nor undefined
ObjectValues(item) ==
    CASE item[1] = "arr" -> item[2]
      [] item[1] = "obj" -> ObjectValuesOfObject(item[2])
      [] item[1] = "str" -> [i \in 1..Len(item[2]) |-> Str(<<item[2][i]>>)]
      [] OTHER -> <<>>

\* a[i], i counted from 0
At(a, i) == IF i + 1 <= Len(a) THEN a[i + 1] ELSE Undefined

\* the indices of the items whose value parses
ParsedItems(items) ==
    LET all == [i \in 1..Len(items) |-> i]
        Parses(i) == parseFloat(At(ObjectValues(items[i]), 1)) # NaN
    IN  SelectSeq(all, Parses)

\* a plausible variant: an item whose value does not parse is left out
SeriesOf_SkipNaN(key, value) ==
    [name |-> key,
     time |-> [n \in 1..Len(ParsedItems(value[2])) |->
                   At(ObjectValues(value[2][ParsedItems(value[2])[n]]), 0)],
     value |-> [n \in 1..Len(ParsedItems(value[2])) |->
                    parseFloat(At(ObjectValues(value[2][ParsedItems(value[2])[n]]), 1))]]

\* the body of the for loop for one entry whose value is an array of items
\* none of which is null
SeriesOf(key, value) ==
    [name |-> key,
     time |-> [i \in 1..Len(value[2]) |-> At(ObjectValues(value[2][i]), 0)],
     value |-> [i \in 1..Len(value[2]) |->
                    parseFloat(At(ObjectValues(value[2][i]), 1))]]

\* value.map is not a function, or Object.values(null)
EntryThrows(value) ==
    \/ value[1] # "arr"
    \/ \E i \in 1..Len(value[2]) : value[2][i][1] \in {"null", "undefined"}

\* a plausible slip: the last entry of the payload is not pushed
Reshape_DropLast(data) ==
    LET entries == ObjectEntries(data[2])
    IN  IF \E i \in 1..Len(entries) : EntryThrows(entries[i][2]) THEN Throw
        ELSE Return(SubSeq([i \in 1..Len(entries) |->
                                SeriesOf(entries[i][1], entries[i][2])],
                            1, Len(entries) - 1))

\* lines 47-62 for the object data: the chartDatas built, or the TypeError
Reshape(data) ==
    LET entries == ObjectEntries(data[2])
    IN  IF \E i \in 1..Len(entries) : EntryThrows(entries[i][2]) THEN Throw
        ELSE Return([i \in 1..Len(entries) |->
                         SeriesOf(entries[i][1], entries[i][2])])

IdleHandler ==
    [pc |-> "idle", adcode |-> Undefined, request |-> <<>>, data |-> Undefined]

\* the synchronous part of dblClickFn up to its await: lines 45-46
DblClick(h, code) ==
    /\ handlers[h].pc = "idle"
    /\ \A g \in 1..(h - 1) : handlers[g].pc # "idle"
    /\ LET provinceName == getProvinceNameByAdcode(code, Undefined)
           request == url \o provinceName[2]
       IN  /\ handlers' = [handlers EXCEPT ![h] =
                   [pc |-> "awaiting", adcode |-> code, request |-> request,
                    data |-> Undefined]]
           /\ log' = log \o << <<h, "resolve", provinceName>>,
                               <<h, "fetch", request>> >>
    /\ UNCHANGED <<adcode, options, ret, firstCodes, chartData>>

\* a plausible slip: the chart is emptied when the reshaping throws
FetchFulfilled_ResetOnThrow(h, data) ==
    /\ handlers[h].pc = "awaiting"
    /\ LET chartDatas == Reshape(data)
       IN  IF chartDatas = Throw
           THEN /\ handlers' = [handlers EXCEPT ![h].pc = "rejected", ![h].data = data]
                /\ log' = Append(log, <<h, "throw", Throw>>)
                /\ chartData' = <<>>
           ELSE /\ handlers' = [handlers EXCEPT ![h].pc = "done", ![h].data = data]
                /\ log' = log \o << <<h, "reshape", chartDatas[2]>>,
                                    <<h, "setChartData", chartDatas[2]>> >>
                /\ chartData' = chartDatas[2]
    /\ UNCHANGED <<adcode, options, ret, firstCodes>>

\* the request of h is answered with the object data: lines 46-63
FetchFulfilled(h, data) ==
    /\ handlers[h].pc = "awaiting"
    /\ LET chartDatas == Reshape(data)
       IN  IF chartDatas = Throw
           THEN /\ handlers' = [handlers EXCEPT ![h].pc = "rejected", ![h].data = data]
                /\ log' = Append(log, <<h, "throw", Throw>>)
                /\ UNCHANGED chartData
           ELSE /\ handlers' = [handlers EXCEPT ![h].pc = "done", ![h].data = data]
                /\ log' = log \o << <<h, "reshape", chartDatas[2]>>,
                                    <<h, "setChartData", chartDatas[2]>> >>
                /\ chartData' = chartDatas[2]
    /\ UNCHANGED <<adcode, options, ret, firstCodes>>

\* the request of h fails: the await of line 46 throws
FetchRejected(h) ==
    /\ handlers[h].pc = "awaiting"
    /\ handlers' = [handlers EXCEPT ![h].pc = "rejected"]
    /\ log' = Append(log, <<h, "fetchError", Undefined>>)
    /\ UNCHANGED <<adcode, options, ret, firstCodes, chartData>>

-----------------------------------------------------------------------------
(* Calls of the exported functions of adcodeMap.ts on the arguments adcode   *)
(* and options                                                               *)

NoCall == <<"none">>

\* firstCodes: <<"none", []>> before the first getAllProvinceAdcodes call,
\* <<"first", codes>> after it, <<"intervened", codes>> once another function
\* has been called since, <<"again", codes>> once getAllProvinceAdcodes has
\* been called again after that; codes is what the first call returned
NoCodes == <<"none", Arr(<<>>)>>

Intervened(f) == IF f[1] = "first" THEN <<"intervened", f[2]>> ELSE f

CallGetProvinceNameByAdcode ==
    /\ ret' = <<"getProvinceNameByAdcode", getProvinceNameByAdcode(adcode, options)>>
    /\ firstCodes' = Intervened(firstCodes)
    /\ UNCHANGED <<adcode, options, handlers, chartData, log>>

CallIsValidProvinceAdcode ==
    /\ ret' = <<"isValidProvinceAdcode", Bool(isValidProvinceAdcode(adcode, options))>>
    /\ firstCodes' = Intervened(firstCodes)
    /\ UNCHANGED <<adcode, options, handlers, chartData, log>>

CallGetAllProvinceAdcodes ==
    /\ ret' = <<"getAllProvinceAdcodes", Arr(getAllProvinceAdcodes(options))>>
    /\ firstCodes' = CASE firstCodes[1] = "none" -> <<"first", ret'[2]>>
                       [] firstCodes[1] = "intervened" -> <<"again", firstCodes[2]>>
                       [] OTHER -> firstCodes
    /\ UNCHANGED <<adcode, options, handlers, chartData, log>>

\* getAdcodeByProvinceName called on the name getProvinceNameByAdcode returned
CallGetAdcodeByProvinceName ==
    /\ ret[1] = "getProvinceNameByAdcode"
    /\ ret' = <<"getAdcodeByProvinceName", getAdcodeByProvinceName(ret[2][2]), ret[2]>>
    /\ firstCodes' = Intervened(firstCodes)
    /\ UNCHANGED <<adcode, options, handlers, chartData, log>>

-----------------------------------------------------------------------------
(* Bounds and inputs *)

MaxCodeLen == 6

MaxClicks == 2

MaxPoints == 2

\* all sequences over S of length at most n
SeqsUpTo(S, n) == UNION {[1..k -> S] : k \in 0..n}

TableKeys == {ADCODE_TO_PROVINCE[i][1] : i \in 1..Len(ADCODE_TO_PROVINCE)}

TableNames == {ADCODE_TO_PROVINCE[i][2][2] : i \in 1..Len(ADCODE_TO_PROVINCE)}

\* code strings: every key of the table, every string of 0 and 7 up to
\* MaxCodeLen characters, and strings that are not made of digits
CodeStrings ==
    TableKeys \cup SeqsUpTo({"0", "7"}, MaxCodeLen)
      \cup { <<"a", "b", "c">>, <<"1", "2", "3", "4", "5">>,
             <<"1", "1", "0", "0", "0", "a">>, <<" ", "1", "1", "0", "0", "0", "0">>,
             <<"1", "1", "0", "0", "0", "0", "\n">>, <<"1", "1", "0", ".", "0", "0">>,
             <<"1", "1", "0", "0", "0", "0", "0">> }

CodeNumbers == {0, 12345, 110000, 440000, 710000, 820000, 999999, 1234567, -110000}

Adcodes ==
    {Str(c) : c \in CodeStrings} \cup {Num(n, 0) : n \in CodeNumbers}
      \cup {Num(1100005, 1)}

\* returnDefault values: the empty string, a name outside the table, a name
\* of the table
Fallbacks == {<<>>, <<"wei4", "zhi1", "di", "qu">>, <<"bei", "jing", "shi">>}

OptionsSet ==
    {Undefined} \cup
    {<<"obj", i, r>> : i \in {Undefined, Bool(TRUE), Bool(FALSE)},
                       r \in {Undefined} \cup {Str(f) : f \in Fallbacks}}

Handlers == 1..MaxClicks

\* customProperties.adcode of the regions clicked: two provinces and the whole
\* country (not in the table)
ClickedAdcodes == {Num(110000, 0), Num(440000, 0), Num(100000, 0)}

GDP == <<"G", "D", "P">>

\* the keys of a payload in the order the JSON text names them; the second is
\* an integer-like key, which Object.entries lists first
SeriesNames == <<GDP, <<"1">>>>

\* points: well formed; a value that does not parse; a numeric time and value;
\* a value of which a prefix parses; a point of one component; null
Points ==
    { Arr(<<Str(<<"2020">>), Str(<<"1", "0", "0", ".", "5">>)>>),
      Arr(<<Str(<<"2021">>), Str(<<"a", "b", "c">>)>>),
      Arr(<<Num(2022, 0), Num(1102, 1)>>),
      Arr(<<Str(<<"2023">>), Str(<<" ", "-", "1", ".", "5", "e", "1", "p", "x">>)>>),
      Arr(<<Str(<<"2024">>)>>),
      Null }

SeriesValues == {Arr(s) : s \in SeqsUpTo(Points, MaxPoints)} \cup {Null}

\* the entries of the keys chosen, each with a value, in the order of
\* SeriesNames
WithValues(chosen, values) ==
    LET Chosen(e) == e[1] \in chosen
    IN  SelectSeq([n \in 1..Len(SeriesNames) |-> <<SeriesNames[n], values[n]>>],
                  Chosen)

\* the JSON objects the data source may answer with
Payloads ==
    {Obj(WithValues(chosen, values)) :
         chosen \in SUBSET {SeriesNames[n] : n \in 1..Len(SeriesNames)},
         values \in [1..Len(SeriesNames) -> SeriesValues]}

\* the answers of the data source when several handlers run
SamplePayloads ==
    { Obj(<<>>),
      Obj(<< <<GDP, Arr(<<Arr(<<Str(<<"2020">>), Str(<<"1", "0", "0", ".", "5">>)>>)>>)>> >>),
      Obj(<< <<GDP, Arr(<<Arr(<<Str(<<"2020">>),
                                Str(<<" ", "-", "1", ".", "5", "e", "1", "p", "x">>)>>),
                          Arr(<<Str(<<"2021">>), Str(<<"a", "b", "c">>)>>)>>)>> >>),
      Obj(<< <<GDP, Null>> >>) }

-----------------------------------------------------------------------------
(* Specifications *)

Init ==
    /\ adcode = Undefined
    /\ options = Undefined
    /\ ret = NoCall
    /\ firstCodes = NoCodes
    /\ handlers = [h \in Handlers |-> IdleHandler]
    /\ chartData = <<>>
    /\ log = <<>>

\* App: up to MaxClicks overlapping invocations of dblClickFn
Next ==
    \/ \E h \in Handlers, code \in ClickedAdcodes : DblClick(h, code)
    \/ \E h \in Handlers :
           /\ handlers[h].pc = "awaiting"
           /\ \E data \in SamplePayloads : FetchFulfilled(h, data)
    \/ \E h \in Handlers : FetchRejected(h)

Spec == Init /\ [][Next]_vars

\* one invocation of dblClickFn, answered with any payload
NextReshape ==
    \/ DblClick(1, Num(110000, 0))
    \/ /\ handlers[1].pc = "awaiting"
       /\ \E data \in Payloads : FetchFulfilled(1, data)
    \/ FetchRejected(1)

SpecReshape == Init /\ [][NextReshape]_vars

InitResolver ==
    /\ adcode \in Adcodes
    /\ options \in OptionsSet
    /\ ret = NoCall
    /\ firstCodes = NoCodes
    /\ handlers = [h \in Handlers |-> IdleHandler]
    /\ chartData = <<>>
    /\ log = <<>>

NextResolver ==
    \/ CallGetProvinceNameByAdcode
    \/ CallIsValidProvinceAdcode
    \/ CallGetAllProvinceAdcodes
    \/ CallGetAdcodeByProvinceName

SpecResolver == InitResolver /\ [][NextResolver]_vars

-----------------------------------------------------------------------------
(* The claims about adcodeMap.ts, stated on the table as written *)

DecimalDigits == {"0", "1", "2", "3", "4", "5", "6", "7", "8", "9"}

SixDecimalDigits(s) == Len(s) = 6 /\ \A i \in 1..6 : s[i] \in DecimalDigits

SpecialRegions ==
    { <<"7","1","0","0","0","0">>, <<"8","1","0","0","0","0">>,
      <<"8","2","0","0","0","0">> }

\* the name the table gives the key s
TableEntry(s) == ADCODE_TO_PROVINCE[CHOOSE i \in 1..Len(ADCODE_TO_PROVINCE) : ADCODE_TO_PROVINCE[i][1] = s][2]

\* includeSpecialRegions is false: given, and given as false
PolicyExcludes(opts, s) ==
    opts[1] = "obj" /\ opts[2] = Bool(FALSE) /\ s \in SpecialRegions

FallbackGiven(opts) == opts[1] = "obj" /\ opts[3][1] = "str"

Resolves(opts, s) ==
    SixDecimalDigits(s) /\ s \in TableKeys /\ ~PolicyExcludes(opts, s)

\* C1: getProvinceNameByAdcode returns a string for every code and options:
\* with s the string form of the code, the table's name for s when s is six
\* decimal digits, a key of the table and not excluded by
\* includeSpecialRegions = false (the default is true); in every other case
\* the fallback if one was given, else s. A number and its string form give
\* the same result.
C1_ResolveName ==
    ret[1] = "getProvinceNameByAdcode" =>
        LET s == String(adcode)
        IN  /\ ret[2][1] = "str"
            /\ ret[2] = IF Resolves(options, s) THEN TableEntry(s)
                        ELSE IF FallbackGiven(options) THEN options[3]
                        ELSE Str(s)
            /\ adcode[1] = "num" =>
                   ret[2] = getProvinceNameByAdcode(Str(s), options)

\* the number 710000 with includeSpecialRegions false and the empty string as
\* fallback resolves to the empty string
C1_Witness ==
    /\ ret[1] = "getProvinceNameByAdcode"
    /\ adcode = Num(710000, 0)
    /\ options = <<"obj", Bool(FALSE), Str(<<>>)>>
    /\ ret[2] = Str(<<>>)

\* C2: the names of the table are pairwise distinct; for every key c of the
\* table, getProvinceNameByAdcode(c) with includeSpecialRegions true is the
\* table's entry for c and getAdcodeByProvinceName of it is c again;
\* getAdcodeByProvinceName of a name that equals a table value is its key, and
\* of a name that equals no table value is null.
C2_ResolveCodeInverse ==
    /\ \A i, j \in 1..Len(ADCODE_TO_PROVINCE) :
           ADCODE_TO_PROVINCE[i][2] = ADCODE_TO_PROVINCE[j][2] => i = j
    /\ (ret[1] = "getProvinceNameByAdcode" /\ String(adcode) \in TableKeys
            /\ ~PolicyExcludes(options, String(adcode)))
         => ret[2] = TableEntry(String(adcode))
    /\ (ret[1] = "getAdcodeByProvinceName" /\ String(adcode) \in TableKeys
            /\ ~PolicyExcludes(options, String(adcode)))
         => ret[2] = Str(String(adcode))
    /\ ret[1] = "getAdcodeByProvinceName" =>
         IF ret[3][2] \in TableNames
         THEN /\ ret[2][1] = "str"
              /\ ret[2][2] \in TableKeys
              /\ TableEntry(ret[2][2]) = ret[3]
         ELSE ret[2] = Null

\* the round trip of the last key of the table
C2_Witness ==
    /\ ret[1] = "getAdcodeByProvinceName"
    /\ adcode = Str(<<"8","2","0","0","0","0">>)
    /\ ret[3] = Str(<<"ao","men","te","bie","xing","zheng","qu">>)
    /\ ret[2] = adcode

\* C3: isValidProvinceAdcode is true exactly when the string form of the code
\* is six decimal digits, is not excluded by includeSpecialRegions = false
\* (the default is true), and is a key of the table.
C3_IsValidCode ==
    ret[1] = "isValidProvinceAdcode" =>
        ret[2] = Bool(Resolves(options, String(adcode)))

\* the well-formed code 000000 is not in the table: invalid
C3_Witness ==
    /\ ret[1] = "isValidProvinceAdcode"
    /\ adcode = Str(<<"0","0","0","0","0","0">>)
    /\ ret[2] = Bool(FALSE)

\* the keys in the order the table is written in
DefinitionOrder == [i \in 1..Len(ADCODE_TO_PROVINCE) |-> ADCODE_TO_PROVINCE[i][1]]

NotSpecialRegion(code) == code \notin SpecialRegions

\* C4: getAllProvinceAdcodes returns every key of the table once, in the order
\* the table is written in; with includeSpecialRegions false the same sequence
\* without the three special-region codes; a
\* later call, whatever was called in between, returns what the first call
\* with the same option returned.
C4_ListCodes ==
    /\ ret[1] = "getAllProvinceAdcodes" =>
         /\ ret[2] = Arr(IF options[1] = "obj" /\ options[2] = Bool(FALSE)
                         THEN SelectSeq(DefinitionOrder, NotSpecialRegion)
                         ELSE DefinitionOrder)
         /\ \A i, j \in 1..Len(ret[2][2]) : ret[2][2][i] = ret[2][2][j] => i = j
         /\ ret[2] = firstCodes[2]

\* a second call with includeSpecialRegions false, after other calls
C4_Witness ==
    /\ ret[1] = "getAllProvinceAdcodes"
    /\ firstCodes[1] = "again"
    /\ options[1] = "obj" /\ options[2] = Bool(FALSE)
    /\ Len(ret[2][2]) = Len(ADCODE_TO_PROVINCE) - 3

-----------------------------------------------------------------------------
(* The claims about dblClickFn *)

\* the steps handler h has logged, in order
HandlerEvents(h) ==
    LET Mine(e) == e[1] = h
    IN  SelectSeq(log, Mine)

StepsOf(h) == [i \in 1..Len(HandlerEvents(h)) |-> HandlerEvents(h)[i][2]]

\* the series handler h handed to setChartData (h is done)
SeriesSetBy(h) == HandlerEvents(h)[4][3]

\* the points the payload entries give the series named key
PointsOf(entries, key) ==
    entries[CHOOSE j \in 1..Len(entries) : entries[j][1] = key][2]

\* a payload of the data model: every value a list of two-component points
WellFormed(entries) ==
    \A j \in 1..Len(entries) :
        /\ entries[j][2][1] = "arr"
        /\ \A i \in 1..Len(entries[j][2][2]) :
               /\ entries[j][2][2][i][1] = "arr"
               /\ Len(entries[j][2][2][i][2]) = 2

\* C5: for every payload the reshape step outputs one ChartSeries per input
\* key, named by that key (none for the empty payload), each with
\* len(time) = len(value) = the number of points of the input series; a
\* payload of the data model is always reshaped.
C5_OneSeriesPerKey ==
    \A h \in Handlers :
        handlers[h].data # Undefined =>
            LET entries == handlers[h].data[2]
            IN  /\ WellFormed(entries) => handlers[h].pc = "done"
                /\ handlers[h].pc = "done" =>
                     /\ Len(SeriesSetBy(h)) = Len(entries)
                     /\ \A j \in 1..Len(entries) :
                            \E k \in 1..Len(SeriesSetBy(h)) :
                                /\ SeriesSetBy(h)[k].name = entries[j][1]
                                /\ Len(SeriesSetBy(h)[k].time) = Len(entries[j][2][2])
                                /\ Len(SeriesSetBy(h)[k].value) = Len(entries[j][2][2])
                                /\ \A m \in 1..Len(SeriesSetBy(h)) :
                                       SeriesSetBy(h)[m].name = entries[j][1] => m = k

\* a payload of two keys, one series of two points and one of none
C5_Witness ==
    /\ handlers[1].pc = "done"
    /\ Len(handlers[1].data[2]) = 2
    /\ Len(chartData) = 2
    /\ chartData[1].name = <<"1">>
    /\ Len(chartData[1].time) = 0
    /\ chartData[2].name = GDP
    /\ Len(chartData[2].value) = 2

\* C6: for every entry (seriesName, points) and index i, time[i] is the first
\* component of the i-th point coerced to string and value[i] the second
\* component parsed as a floating-point number.
C6_TimeAndValue ==
    \A h \in Handlers :
        handlers[h].pc = "done" =>
            \A k \in 1..Len(SeriesSetBy(h)) :
                LET points == PointsOf(handlers[h].data[2], SeriesSetBy(h)[k].name)[2]
                IN  \A i \in 1..Len(points) :
                        /\ SeriesSetBy(h)[k].time[i] = Str(String(At(points[i][2], 0)))
                        /\ SeriesSetBy(h)[k].value[i] = parseFloat(At(points[i][2], 1))

\* the second component of point i of entry j does not parse
UnparseableAt(entries, j, i) ==
    /\ entries[j][2][1] = "arr"
    /\ i <= Len(entries[j][2][2])
    /\ entries[j][2][2][i][1] = "arr"
    /\ Len(entries[j][2][2][i][2]) >= 2
    /\ parseFloat(entries[j][2][2][i][2][2]) = NaN

\* the payload with the second component of point i of entry j made "1"
WithParseable(entries, j, i) ==
    LET point == entries[j][2][2][i][2]
        points == entries[j][2][2]
    IN  Obj([entries EXCEPT ![j] =
            <<entries[j][1],
              Arr([points EXCEPT ![i] = Arr([point EXCEPT ![2] = Str(<<"1">>)])])>>])

\* the series agree but for value[i] of the series named key, which is NaN
SameButNaN(series, other, key, i) ==
    /\ Len(series) = Len(other)
    /\ \A k \in 1..Len(series) :
           /\ series[k].name = other[k].name
           /\ series[k].time = other[k].time
           /\ Len(series[k].value) = Len(other[k].value)
           /\ \A m \in 1..Len(series[k].value) :
                  series[k].value[m] =
                      IF series[k].name = key /\ m = i THEN NaN
                      ELSE other[k].value[m]

\* C7: a value that does not parse gives NaN at exactly its position and does
\* not abort the reshaping: the time at that position, the other positions of
\* the series and the other series are what they would be had the value been
\* parseable.
C7_NaNInPlace ==
    \A h \in Handlers :
        handlers[h].data # Undefined =>
            LET entries == handlers[h].data[2]
            IN  \A j \in 1..Len(entries), i \in 1..MaxPoints + 1 :
                    UnparseableAt(entries, j, i) =>
                        LET other == Reshape(WithParseable(entries, j, i))
                        IN  IF other = Throw THEN handlers[h].pc = "rejected"
                            ELSE /\ handlers[h].pc = "done"
                                 /\ SameButNaN(SeriesSetBy(h), other[2],
                                               entries[j][1], i)

\* a series whose first value parses and whose second does not
C7_Witness ==
    /\ handlers[1].pc = "done"
    /\ Len(handlers[1].data[2]) = 1
    /\ UnparseableAt(handlers[1].data[2], 1, 2)
    /\ Len(chartData) = 1
    /\ chartData[1].value = <<Num(1005, 1), NaN>>
    /\ chartData[1].time = <<Str(<<"2020">>), Str(<<"2021">>)>>

\* C8: the reshape step never raises: every handler that received a JSON
\* object has handed its series to the chart.
C8_NeverRaises ==
    \A h \in Handlers : handlers[h].data # Undefined => handlers[h].pc = "done"

\* the name the table gives the code clicked, else the code's string form
NameClicked(code) ==
    IF Resolves(Undefined, String(code)) THEN TableEntry(String(code))
    ELSE Str(String(code))

StepOrders ==
    { <<>>, <<"resolve", "fetch">>, <<"resolve", "fetch", "reshape", "setChartData">>,
      <<"resolve", "fetch", "throw">>, <<"resolve", "fetch", "fetchError">> }

\* the series of the last setChartData logged, [] when there is none
RECURSIVE LastSet(_)
LastSet(events) ==
    IF events = <<>> THEN <<>>
    ELSE IF events[Len(events)][2] = "setChartData" THEN events[Len(events)][3]
    ELSE LastSet(SubSeq(events, 1, Len(events) - 1))

\* C9: every handling of a double-click resolves the name, then fetches with
\* the name resolved for that click, then reshapes the whole payload, then
\* sets the chart state; the chart state is set at most once per click and
\* only after the reshaping, so a click whose fetch or reshaping fails leaves
\* it as it was.
C9_StepOrder ==
    /\ \A h \in Handlers :
           LET ev == HandlerEvents(h)
           IN  /\ StepsOf(h) \in StepOrders
               /\ Len(ev) >= 2 =>
                      /\ ev[1][3] = NameClicked(handlers[h].adcode)
                      /\ ev[2][3] = url \o ev[1][3][2]
               /\ Len(ev) = 4 =>
                      /\ ev[3][3] = ev[4][3]
                      /\ Len(ev[3][3]) = Len(handlers[h].data[2])
    /\ chartData = LastSet(log)

\* the first click's series are on the chart, and the second click's
\* reshaping has failed since
C9_Witness ==
    /\ handlers[1].pc = "done"
    /\ handlers[2].pc = "rejected"
    /\ handlers[2].data # Undefined
    /\ log[Len(log)] = <<2, "throw", Throw>>
    /\ chartData # <<>>
    /\ chartData = SeriesSetBy(1)

\* the place in the log of the step of handler h
PlaceOf(h, step) == CHOOSE n \in 1..Len(log) : log[n][1] = h /\ log[n][2] = step

\* C10: when two double-clicks on different provinces overlap and both
\* fetches succeed, the chart state holds, once both are handled, the series
\* of the province clicked last.
C10_LastClickWins ==
    ( /\ handlers[1].pc = "done"
      /\ handlers[2].pc = "done"
      /\ \A h \in Handlers : h > 2 => handlers[h].pc = "idle"
      /\ String(handlers[1].adcode) \in TableKeys
      /\ String(handlers[2].adcode) \in TableKeys
      /\ handlers[1].adcode # handlers[2].adcode
      /\ PlaceOf(2, "resolve") < PlaceOf(1, "reshape") )
    => chartData = SeriesSetBy(2)

=============================================================================
